---- MODULE Spec2Model ----
\* Model of src/embed.py: the transform / embed / upsert pipeline that reads
\* tmdb_data.raw_movies, normalises every row, asks the embedding provider for
\* one vector per row and upserts the result into public.movies_production.
\*
\* Nullable values are encoded as sequences: None is <<>> and a present value
\* v is <<v>>.  vote_average is counted in eighths (every such value is an
\* exactly representable binary float), ratings in tenths.  An embedding
\* vector is abstracted to a name.
EXTENDS Integers, Sequences, FiniteSets, TLC

\* ---------------------------------------------------------------- bounds
MaxExtra == 1     \* vectors the provider may return beyond the batch size
MaxEdits == 1     \* title edits the ingestion collaborator makes in staging
MaxVote == 82     \* largest vote_average (in eighths) drawn for normalisation

Procs == {"runA", "runB"}     \* the pipeline runs, possibly simultaneous
Ids == {1, 2}                 \* identifiers that may occur in staging
Vectors == {"v1", "v2"}       \* vectors the provider may return

None == <<>>
Some(v) == <<v>>

\* ------------------------------------------------------------ constants
POSTER_BASE_URL == "https://image.tmdb.org/t/p/w500"
NO_OVERVIEW == "No overview available."

\* --------------------------------------------------------- pure helpers
Digits == {"0", "1", "2", "3", "4", "5", "6", "7", "8", "9"}

DigitVal(c) ==
    CASE c = "0" -> 0 [] c = "1" -> 1 [] c = "2" -> 2 [] c = "3" -> 3
      [] c = "4" -> 4 [] c = "5" -> 5 [] c = "6" -> 6 [] c = "7" -> 7
      [] c = "8" -> 8 [] c = "9" -> 9

\* The number written by the digits cs[lo..hi].
RECURSIVE NumVal(_, _, _)
NumVal(cs, lo, hi) ==
    IF hi < lo THEN 0 ELSE 10 * NumVal(cs, lo, hi - 1) + DigitVal(cs[hi])

AllDigits(cs, lo, hi) == \A i \in lo..hi : cs[i] \in Digits

IsLeap(y) == (y % 4 = 0 /\ y % 100 # 0) \/ y % 400 = 0

DaysInMonth(y, m) ==
    IF m = 2 THEN (IF IsLeap(y) THEN 29 ELSE 28)
    ELSE IF m \in {4, 6, 9, 11} THEN 30 ELSE 31

ValidDate(y, m, d) == y >= 1 /\ m \in 1..12 /\ d \in 1..DaysInMonth(y, m)

\* Positions of the "-" separators of a character sequence.
Dashes(cs) == {i \in 1..Len(cs) : cs[i] = "-"}

\* The year of a text whose two separators stand at d1 < d2.
ParseYmd(cs, d1, d2) ==
    IF /\ d1 - 1 = 4
       /\ d2 - d1 - 1 \in {1, 2}
       /\ Len(cs) - d2 \in {1, 2}
       /\ AllDigits(cs, 1, d1 - 1)
       /\ AllDigits(cs, d1 + 1, d2 - 1)
       /\ AllDigits(cs, d2 + 1, Len(cs))
       /\ ValidDate(NumVal(cs, 1, d1 - 1), NumVal(cs, d1 + 1, d2 - 1),
                    NumVal(cs, d2 + 1, Len(cs)))
    THEN Some(NumVal(cs, 1, d1 - 1))
    ELSE None

\* datetime.strptime(text, '%Y-%m-%d').year, or None where strptime raises
\* ValueError: %Y takes exactly four digits, %m and %d one or two, the whole
\* text must be consumed and the date must exist in the calendar.
StrptimeYear(cs) ==
    IF Cardinality(Dashes(cs)) # 2 THEN None
    ELSE ParseYmd(cs, CHOOSE i \in Dashes(cs) : \A j \in Dashes(cs) : i <= j,
                      CHOOSE i \in Dashes(cs) : \A j \in Dashes(cs) : j <= i)

\* release_year of a raw row (embed.py 56-61): a falsy release_date (NULL or
\* the empty text) is skipped, a parse failure is swallowed.
ReleaseYear(release_date) ==
    IF release_date = None \/ release_date[1] = <<>> THEN None
    ELSE StrptimeYear(release_date[1])

\* Faulty variant: the tenths are cut off instead of rounded.
Truncate1(v) == (10 * v) \div 8

\* round(x, 1) of Python on a float x = v/8: the nearest tenth, an exact tie
\* going to the even tenth.  The result is counted in tenths.

Round1(v) ==
    LET n == 10 * v
        q == n \div 8
        r == n % 8
    IN  IF r < 4 THEN q
        ELSE IF r > 4 THEN q + 1
        ELSE IF q % 2 = 0 THEN q ELSE q + 1

\* rating of a raw row (embed.py 63)
Rating(vote_average) ==
    IF vote_average # None THEN Round1(vote_average[1]) ELSE 0

\* x or default, for a nullable text
OrText(opt, default) ==
    IF opt = None \/ opt[1] = "" THEN default ELSE opt[1]

PosterUrl(poster_path) ==
    IF poster_path = None \/ poster_path[1] = "" THEN None
    ELSE Some(POSTER_BASE_URL \o poster_path[1])

SemanticText(title, overview) ==
    "Movie Title: " \o title \o ". Overview: " \o overview

\* The dictionary appended to transformed_movies for one raw row, before the
\* embedding is attached (embed.py 53-77).
Transform(movie) ==
    [id           |-> movie.id,
     title        |-> OrText(movie.title, ""),
     overview     |-> OrText(movie.overview, NO_OVERVIEW),
     release_year |-> ReleaseYear(movie.release_date),
     rating       |-> Rating(movie.vote_average),
     poster_url   |-> PosterUrl(movie.poster_path)]

TextOf(movie) ==
    SemanticText(OrText(movie.title, ""), OrText(movie.overview, NO_OVERVIEW))

TransformAll(raws) == [i \in 1..Len(raws) |-> Transform(raws[i])]
TextsToEmbed(raws) == [i \in 1..Len(raws) |-> TextOf(raws[i])]

\* Faulty variant: the vectors are attached in reverse order.
AttachReversed(transformed, embeddings) ==
    [i \in 1..Len(transformed) |->
        [id |-> transformed[i].id, title |-> transformed[i].title,
         overview |-> transformed[i].overview,
         release_year |-> transformed[i].release_year,
         rating |-> transformed[i].rating,
         poster_url |-> transformed[i].poster_url,
         embedding |-> embeddings[Len(transformed) + 1 - i]]]

\* movie['embedding'] = embeddings[i] for every position (embed.py 88-89);
\* only used when embeddings is long enough.
Attach(transformed, embeddings) ==
    [i \in 1..Len(transformed) |->
        [id |-> transformed[i].id, title |-> transformed[i].title,
         overview |-> transformed[i].overview,
         release_year |-> transformed[i].release_year,
         rating |-> transformed[i].rating,
         poster_url |-> transformed[i].poster_url,
         embedding |-> embeddings[i]]]

\* ------------------------------------------------- the two relations
\* INSERT ... ON CONFLICT (id) DO UPDATE SET <all six non-key columns> =
\* EXCLUDED.<column> (embed.py 98-108) on a table kept as a sequence of rows.
HasId(tbl, id) == \E i \in 1..Len(tbl) : tbl[i].id = id

RowOf(tbl, id) == tbl[CHOOSE i \in 1..Len(tbl) : tbl[i].id = id]

\* Faulty variant: a plain INSERT on a table without its primary key.
InsertAlways(tbl, m) == Append(tbl, m)

\* Faulty variant: the SET list of the upsert lacks the title.
UpsertKeepsTitle(tbl, m) ==
    IF HasId(tbl, m.id)
    THEN [i \in 1..Len(tbl) |->
            IF tbl[i].id = m.id
            THEN [tbl[i] EXCEPT !.overview = m.overview,
                                !.release_year = m.release_year,
                                !.rating = m.rating,
                                !.poster_url = m.poster_url,
                                !.embedding = m.embedding]
            ELSE tbl[i]]
    ELSE Append(tbl, m)

UpsertRow(tbl, m) ==
    IF HasId(tbl, m.id)
    THEN [i \in 1..Len(tbl) |->
            IF tbl[i].id = m.id
            THEN [tbl[i] EXCEPT !.title = m.title,
                                !.overview = m.overview,
                                !.release_year = m.release_year,
                                !.rating = m.rating,
                                !.poster_url = m.poster_url,
                                !.embedding = m.embedding]
            ELSE tbl[i]]
    ELSE Append(tbl, m)

\* What the database remembers of one executed statement until the
\* transaction ends: the identifier written and the row it replaced.
UndoEntry(tbl, m) ==
    [id |-> m.id, old |-> IF HasId(tbl, m.id) THEN Some(RowOf(tbl, m.id)) ELSE None]

RemoveId(tbl, id) == SelectSeq(tbl, LAMBDA r : r.id # id)

RestoreRow(tbl, e) ==
    IF e.old = None THEN RemoveId(tbl, e.id)
    ELSE [i \in 1..Len(tbl) |-> IF tbl[i].id = e.id THEN e.old[1] ELSE tbl[i]]

\* Rolling a transaction back undoes its statements, last one first.
RECURSIVE Rollback(_, _)
Rollback(tbl, log) ==
    IF log = <<>> THEN tbl
    ELSE Rollback(RestoreRow(tbl, log[Len(log)]), SubSeq(log, 1, Len(log) - 1))

\* Faulty variant: closing the connection keeps the uncommitted statements.
CloseKeepsWrites(tbl, log) == tbl

\* conn.close() on a connection with an open transaction (embed.py 158-161):
\* psycopg2 discards the uncommitted work.

ConnCloseTable(tbl, log) == Rollback(tbl, log)

\* All orders in which SELECT ... FROM raw_movies (no ORDER BY) may return
\* the rows of a staging relation.
FetchOrders(stg) ==
    LET n == Cardinality(DOMAIN stg)
    IN  {[i \in 1..n |-> stg[f[i]]] :
            f \in {g \in [1..n -> DOMAIN stg] :
                      \A i, j \in 1..n : i # j => g[i] # g[j]}}

\* Responses genai.embed_content may give to a batch of n texts.
\* The code never reads the vectors beyond position n; they are all taken to
\* be the vector v1.
Responses(n) ==
    UNION {{r \in [1..len -> Vectors] : \A i \in 1..len : i > n => r[i] = "v1"} :
              len \in 0..(n + MaxExtra)}

\* --------------------------------------------------------------- state
VARIABLES
    staging,             \* tmdb_data.raw_movies: identifier -> raw row
    edits,               \* number of edits made to staging so far
    schema_ready,        \* public.movies_production exists
    table,               \* movies_production, uncommitted writes included
    undo,                \* per run: undo log of its open transaction
    credential,          \* per run: GOOGLE_API_KEY is set in its environment
    pc,                  \* per run: position in the script
    conn,                \* per run: "none", "open" or "closed"
    raw_movies,          \* per run: result of fetch_raw_movies
    transformed_movies,  \* per run: result of transform_and_embed_batch
    embeddings,          \* per run: result['embedding'] of the provider call
    texts_to_embed,      \* per run: the texts sent to the embedding provider
    fetched,             \* per run: fetch_raw_movies has returned
    k,                   \* per run: statements executed by the upsert loop
    failed,              \* per run: an exception reached the except clause
    embedCalls,          \* per run: calls made to the embedding provider
    closeCount,          \* per run: calls of conn.close()
    commits,             \* history of committed upsert transactions
    normRaw,             \* input of the normalisation check
    normOut              \* output of the normalisation check

pipeVars == <<staging, edits, schema_ready, table, undo, credential, pc, conn,
              raw_movies, transformed_movies, embeddings, k, failed,
              embedCalls, closeCount, commits, fetched, texts_to_embed>>

vars == <<staging, edits, schema_ready, table, undo, credential, pc, conn,
          raw_movies, transformed_movies, embeddings, k, failed,
          embedCalls, closeCount, commits, normRaw, normOut, fetched, texts_to_embed>>

\* ---------------------------------------------------- staging contents
Chars(s) ==
    CASE s = "2020-05-01" -> <<"2","0","2","0","-","0","5","-","0","1">>
      [] s = "1999-3-7"   -> <<"1","9","9","9","-","3","-","7">>
      [] s = "2021-02-30" -> <<"2","0","2","1","-","0","2","-","3","0">>
      [] s = "2020/05/01" -> <<"2","0","2","0","/","0","5","/","0","1">>
      [] s = "20-05-01"   -> <<"2","0","-","0","5","-","0","1">>
      [] s = ""           -> <<>>

Titles == {Some("Alpha"), Some("Beta")}

\* The rows the ingestion collaborator deposits for an identifier.
SampleRaw(id, title) ==
    IF id % 2 = 1
    THEN [id |-> id, title |-> title, overview |-> None,
          poster_path |-> Some("/a.jpg"),
          release_date |-> Some(Chars("2020-05-01")),
          vote_average |-> Some(63)]
    ELSE [id |-> id, title |-> title, overview |-> Some("A plot."),
          poster_path |-> None,
          release_date |-> Some(Chars("2021-02-30")),
          vote_average |-> None]

StagingStates ==
    {[id \in S |-> SampleRaw(id, Some("Alpha"))] : S \in SUBSET Ids}

\* The database view of committed data: every open transaction undone.
RECURSIVE RollbackAll(_, _)
RollbackAll(tbl, ps) ==
    IF ps = {} THEN tbl
    ELSE LET p == CHOOSE q \in ps : TRUE
         IN  RollbackAll(Rollback(tbl, undo[p]), ps \ {p})

Production == RollbackAll(table, Procs)

\* ---------------------------------------------------------------- Init
InitPipeline ==
    /\ staging \in StagingStates
    /\ edits = 0
    /\ schema_ready = FALSE
    /\ table = <<>>
    /\ undo = [p \in Procs |-> <<>>]
    /\ credential \in [Procs -> BOOLEAN]
    /\ pc = [p \in Procs |-> "import"]
    /\ conn = [p \in Procs |-> "none"]
    /\ raw_movies = [p \in Procs |-> <<>>]
    /\ transformed_movies = [p \in Procs |-> <<>>]
    /\ embeddings = [p \in Procs |-> <<>>]
    /\ k = [p \in Procs |-> 0]
    /\ fetched = [p \in Procs |-> FALSE]
    /\ texts_to_embed = [p \in Procs |-> <<>>]
    /\ failed = [p \in Procs |-> FALSE]
    /\ embedCalls = [p \in Procs |-> 0]
    /\ closeCount = [p \in Procs |-> 0]
    /\ commits = <<>>

Init == InitPipeline /\ normRaw = None /\ normOut = None

\* ------------------------------------------------------------- actions
\* The ingestion collaborator rewrites the title of a staging row.
EditableIds == {1}

EditStaging ==
    /\ edits < MaxEdits
    /\ \E id \in DOMAIN staging \cap EditableIds, t \in Titles :
          /\ staging[id].title # t
          /\ staging' = [staging EXCEPT ![id].title = t]
    /\ edits' = edits + 1
    /\ UNCHANGED <<schema_ready, table, undo, credential, pc, conn, raw_movies,
                   transformed_movies, embeddings, k, failed, embedCalls,
                   closeCount, commits, normRaw, normOut, fetched, texts_to_embed>>

\* An exception caught by "except Exception" of the main block: the error is
\* printed and control passes to the finally clause.
Raise(p) ==
    /\ pc' = [pc EXCEPT ![p] = "finally"]
    /\ failed' = [failed EXCEPT ![p] = TRUE]

\* Faulty variant: the credential is not checked.
KeyCheckSkipped(p) == "connect"

\* Module level of embed.py (13-19): without GOOGLE_API_KEY the ValueError is
\* raised outside any try block and the interpreter exits.

AfterImport(p) == IF credential[p] THEN "connect" ELSE "refused"

Import(p) ==
    /\ pc[p] = "import"
    /\ pc' = [pc EXCEPT ![p] = AfterImport(p)]
    /\ UNCHANGED <<staging, edits, schema_ready, table, undo, credential, conn,
                   raw_movies, transformed_movies, embeddings, k, failed,
                   embedCalls, closeCount, commits, normRaw, normOut, fetched, texts_to_embed>>

\* conn = psycopg2.connect(**DB_PARAMS) (embed.py 144)
ConnectOk(p) ==
    /\ pc[p] = "connect"
    /\ conn' = [conn EXCEPT ![p] = "open"]
    /\ pc' = [pc EXCEPT ![p] = "bootstrap"]
    /\ UNCHANGED <<staging, edits, schema_ready, table, undo, credential,
                   raw_movies, transformed_movies, embeddings, k, failed,
                   embedCalls, closeCount, commits, normRaw, normOut, fetched, texts_to_embed>>

ConnectFail(p) ==
    /\ pc[p] = "connect"
    /\ Raise(p)
    /\ UNCHANGED <<staging, edits, schema_ready, table, undo, credential, conn,
                   raw_movies, transformed_movies, embeddings, k, embedCalls,
                   closeCount, commits, normRaw, normOut, fetched, texts_to_embed>>

\* create_production_table (embed.py 122-139): CREATE ... IF NOT EXISTS and
\* commit.
CreateTableOk(p) ==
    /\ pc[p] = "bootstrap"
    /\ schema_ready' = TRUE
    /\ pc' = [pc EXCEPT ![p] = "fetch"]
    /\ UNCHANGED <<staging, edits, table, undo, credential, conn, raw_movies,
                   transformed_movies, embeddings, k, failed, embedCalls,
                   closeCount, commits, normRaw, normOut, fetched, texts_to_embed>>

CreateTableFail(p) ==
    /\ pc[p] = "bootstrap"
    /\ Raise(p)
    /\ UNCHANGED <<staging, edits, schema_ready, table, undo, credential, conn,
                   raw_movies, transformed_movies, embeddings, k, embedCalls,
                   closeCount, commits, normRaw, normOut, fetched, texts_to_embed>>

\* Faulty variant: the result of the fetch is not tested.
AlwaysTransform(movies) == "transform"

\* Where the main block goes after the fetch (embed.py 150-154).

AfterFetch(movies) == IF movies # <<>> THEN "transform" ELSE "finally"

\* fetch_raw_movies (embed.py 33-43) followed by the test of its result.
FetchOk(p) ==
    /\ pc[p] = "fetch"
    /\ \E movies \in FetchOrders(staging) :
          /\ raw_movies' = [raw_movies EXCEPT ![p] = movies]
          /\ pc' = [pc EXCEPT ![p] = AfterFetch(movies)]
    /\ fetched' = [fetched EXCEPT ![p] = TRUE]
    /\ UNCHANGED <<staging, edits, schema_ready, table, undo, credential, conn,
                   transformed_movies, embeddings, k, failed, embedCalls,
                   closeCount, commits, normRaw, normOut, texts_to_embed>>

FetchFail(p) ==
    /\ pc[p] = "fetch"
    /\ Raise(p)
    /\ UNCHANGED <<staging, edits, schema_ready, table, undo, credential, conn,
                   raw_movies, transformed_movies, embeddings, k, embedCalls,
                   closeCount, commits, normRaw, normOut, fetched, texts_to_embed>>

\* transform_and_embed_batch (embed.py 45-92).  The provider call raises ...
EmbedCallFails(p) ==
    /\ pc[p] = "transform"
    /\ embedCalls' = [embedCalls EXCEPT ![p] = @ + 1]
    /\ Raise(p)
    /\ texts_to_embed' = [texts_to_embed EXCEPT ![p] = TextsToEmbed(raw_movies[p])]
    /\ UNCHANGED <<staging, edits, schema_ready, table, undo, credential, conn,
                   raw_movies, transformed_movies, embeddings, k, closeCount,
                   commits, normRaw, normOut, fetched>>

\* ... or returns fewer vectors than there are rows, and embeddings[i] raises
\* IndexError in the attachment loop ...
EmbedTooFew(p) ==
    /\ pc[p] = "transform"
    /\ \E resp \in Responses(Len(TextsToEmbed(raw_movies[p]))) :
          /\ Len(resp) < Len(raw_movies[p])
          /\ embeddings' = [embeddings EXCEPT ![p] = resp]
    /\ embedCalls' = [embedCalls EXCEPT ![p] = @ + 1]
    /\ Raise(p)
    /\ texts_to_embed' = [texts_to_embed EXCEPT ![p] = TextsToEmbed(raw_movies[p])]
    /\ UNCHANGED <<staging, edits, schema_ready, table, undo, credential, conn,
                   raw_movies, transformed_movies, k, closeCount, commits,
                   normRaw, normOut, fetched>>

\* ... or returns at least as many vectors as there are rows: every row gets
\* the vector at its own position and the function returns.
EmbedReturns(p) ==
    /\ pc[p] = "transform"
    /\ \E resp \in Responses(Len(TextsToEmbed(raw_movies[p]))) :
          /\ Len(resp) >= Len(raw_movies[p])
          /\ embeddings' = [embeddings EXCEPT ![p] = resp]
          /\ transformed_movies' =
                [transformed_movies EXCEPT
                    ![p] = Attach(TransformAll(raw_movies[p]), resp)]
    /\ embedCalls' = [embedCalls EXCEPT ![p] = @ + 1]
    /\ k' = [k EXCEPT ![p] = 0]
    /\ pc' = [pc EXCEPT ![p] = "upsert"]
    /\ texts_to_embed' = [texts_to_embed EXCEPT ![p] = TextsToEmbed(raw_movies[p])]
    /\ UNCHANGED <<staging, edits, schema_ready, table, undo, credential, conn,
                   raw_movies, failed, closeCount, commits, normRaw, normOut, fetched>>

\* ---- upsert_production_movies (embed.py 94-120)
\* The row an uncommitted INSERT ... ON CONFLICT wrote stays locked by its
\* transaction until that transaction ends.
Holds(q, id) == \E i \in 1..Len(undo[q]) : undo[q][i].id = id

NextMovie(p) == transformed_movies[p][k[p] + 1]

\* Faulty variant: a statement never waits for another transaction.
NoRowLocks(p, q) == FALSE

\* Run p is about to write a row that the open transaction of run q wrote.

WaitsFor(p, q) ==
    /\ p # q
    /\ pc[p] = "upsert"
    /\ Holds(q, NextMovie(p).id)

Blocked(p) == \E q \in Procs : WaitsFor(p, q)

RECURSIVE WaitPath(_, _, _)
WaitPath(p, q, n) ==
    /\ n > 0
    /\ \/ WaitsFor(p, q)
       \/ \E r \in Procs : WaitsFor(p, r) /\ WaitPath(r, q, n - 1)

Deadlocked(p) == WaitPath(p, p, Cardinality(Procs))

\* cursor.execute(upsert_query, ...) for the next movie of the batch
Execute(p) ==
    /\ pc[p] = "upsert"
    /\ ~Blocked(p)
    /\ table' = UpsertRow(table, NextMovie(p))
    /\ undo' = [undo EXCEPT ![p] = Append(@, UndoEntry(table, NextMovie(p)))]
    /\ k' = [k EXCEPT ![p] = @ + 1]
    /\ pc' = [pc EXCEPT ![p] = IF k[p] + 1 = Len(transformed_movies[p])
                                THEN "commit" ELSE "upsert"]
    /\ UNCHANGED <<staging, edits, schema_ready, credential, conn, raw_movies,
                   transformed_movies, embeddings, failed, embedCalls,
                   closeCount, commits, normRaw, normOut, fetched, texts_to_embed>>

\* A statement or the commit raises (connectivity loss, a rejected value).
UpsertFail(p) ==
    /\ pc[p] \in {"upsert", "commit"}
    /\ Raise(p)
    /\ UNCHANGED <<staging, edits, schema_ready, table, undo, credential, conn,
                   raw_movies, transformed_movies, embeddings, k, embedCalls,
                   closeCount, commits, normRaw, normOut, fetched, texts_to_embed>>

\* The database breaks a cycle of lock waits by failing the statement of one
\* of the waiting transactions.
DeadlockAbort(p) ==
    /\ pc[p] = "upsert"
    /\ Deadlocked(p)
    /\ Raise(p)
    /\ UNCHANGED <<staging, edits, schema_ready, table, undo, credential, conn,
                   raw_movies, transformed_movies, embeddings, k, embedCalls,
                   closeCount, commits, normRaw, normOut, fetched, texts_to_embed>>

\* conn.commit() (embed.py 119)
Commit(p) ==
    /\ pc[p] = "commit"
    /\ undo' = [undo EXCEPT ![p] = <<>>]
    /\ commits' = Append(commits, [run |-> p, prod |-> RollbackAll(table, Procs \ {p})])
    /\ pc' = [pc EXCEPT ![p] = "finally"]
    /\ UNCHANGED <<staging, edits, schema_ready, table, credential, conn,
                   raw_movies, transformed_movies, embeddings, k, failed,
                   embedCalls, closeCount, normRaw, normOut, fetched, texts_to_embed>>

\* Faulty variant: the connection is closed at the end of the try block only.
CloseSkippedOnError(p) == conn[p] # "none" /\ ~failed[p]

\* finally: if conn: conn.close() (embed.py 158-161)

ShouldClose(p) == conn[p] # "none"

Finally(p) ==
    /\ pc[p] = "finally"
    /\ IF ShouldClose(p)
       THEN /\ conn' = [conn EXCEPT ![p] = "closed"]
            /\ closeCount' = [closeCount EXCEPT ![p] = @ + 1]
            /\ table' = ConnCloseTable(table, undo[p])
            /\ undo' = [undo EXCEPT ![p] = <<>>]
       ELSE UNCHANGED <<conn, closeCount, table, undo>>
    /\ pc' = [pc EXCEPT ![p] = "done"]
    /\ UNCHANGED <<staging, edits, schema_ready, credential, raw_movies,
                   transformed_movies, embeddings, k, failed, embedCalls,
                   commits, normRaw, normOut, fetched, texts_to_embed>>

\* Steps a run takes whenever it can ...
Progress(p) ==
    \/ Import(p)
    \/ ConnectOk(p)
    \/ CreateTableOk(p)
    \/ FetchOk(p)
    \/ EmbedReturns(p)
    \/ Execute(p)
    \/ DeadlockAbort(p)
    \/ Commit(p)
    \/ Finally(p)

\* ... and the failures its collaborators may inflict on it.
Failure(p) ==
    \/ ConnectFail(p)
    \/ CreateTableFail(p)
    \/ FetchFail(p)
    \/ EmbedCallFails(p)
    \/ EmbedTooFew(p)
    \/ UpsertFail(p)

Next ==
    \/ EditStaging
    \/ \E p \in Procs : Progress(p)
    \/ \E p \in Procs : Failure(p)

Spec == Init /\ [][Next]_vars

\* ------------------------------------------- normalisation on its own
NullableTexts(ts) == {None} \cup {Some(t) : t \in ts}

RawRecords ==
    [id           : {1},
     title        : NullableTexts({"", "Alpha"}),
     overview     : NullableTexts({"", "A plot."}),
     poster_path  : NullableTexts({"", "/a.jpg"}),
     release_date : {None} \cup {Some(Chars(d)) :
                        d \in {"", "2020-05-01", "1999-3-7", "2021-02-30",
                               "2020/05/01", "20-05-01"}},
     vote_average : {None} \cup {Some(v) : v \in (-2)..MaxVote}]

NormInit ==
    /\ staging = <<>>
    /\ edits = 0
    /\ schema_ready = FALSE
    /\ table = <<>>
    /\ undo = [p \in Procs |-> <<>>]
    /\ credential = [p \in Procs |-> TRUE]
    /\ pc = [p \in Procs |-> "import"]
    /\ conn = [p \in Procs |-> "none"]
    /\ raw_movies = [p \in Procs |-> <<>>]
    /\ transformed_movies = [p \in Procs |-> <<>>]
    /\ embeddings = [p \in Procs |-> <<>>]
    /\ k = [p \in Procs |-> 0]
    /\ fetched = [p \in Procs |-> FALSE]
    /\ texts_to_embed = [p \in Procs |-> <<>>]
    /\ failed = [p \in Procs |-> FALSE]
    /\ embedCalls = [p \in Procs |-> 0]
    /\ closeCount = [p \in Procs |-> 0]
    /\ commits = <<>>
    /\ normRaw \in RawRecords
    /\ normOut = None

\* One iteration of the loop of transform_and_embed_batch on the row normRaw.
Normalize ==
    /\ normOut = None
    /\ normOut' = Some([movie |-> Transform(normRaw), text |-> TextOf(normRaw)])
    /\ UNCHANGED <<pipeVars, normRaw>>

NormNext == Normalize

NormSpec == NormInit /\ [][NormNext]_vars

\* ================================================================ claims
Committed(p) == \E i \in 1..Len(commits) : commits[i].run = p

UniqueIds(tbl) ==
    \A i, j \in 1..Len(tbl) : i # j => tbl[i].id # tbl[j].id

RawSet(p) == {raw_movies[p][i] : i \in 1..Len(raw_movies[p])}

\* The provider answered runs a and b as one function from texts to vectors.
SameVectorsForSameTexts(a, b) ==
    \A x, y \in {a, b} :
        \A i \in 1..Len(texts_to_embed[x]), j \in 1..Len(texts_to_embed[y]) :
            texts_to_embed[x][i] = texts_to_embed[y][j]
                => embeddings[x][i] = embeddings[y][j]

\* C1: when two runs commit one after the other, both having fetched the same
\* staging rows and the provider having answered the same vectors for the
\* same texts, the production relation after the second commit equals the
\* one after the first: same rows, same count, same value in every field.
C1_UpsertIdempotent ==
    \A i \in 1..(Len(commits) - 1) :
        LET a == commits[i].run
            b == commits[i + 1].run
        IN  (RawSet(a) = RawSet(b) /\ SameVectorsForSameTexts(a, b))
                => /\ commits[i + 1].prod = commits[i].prod
                   /\ Len(commits[i + 1].prod) = Len(commits[i].prod)
                   /\ UniqueIds(commits[i + 1].prod)

C1_Witness ==
    /\ Len(commits) = 2
    /\ RawSet(commits[1].run) = RawSet(commits[2].run)
    /\ SameVectorsForSameTexts(commits[1].run, commits[2].run)
    /\ Len(commits[2].prod) = 2

\* C2: production never holds two rows with one identifier, and a statement
\* upserting a record whose identifier is present adds no row: the row with
\* that identifier keeps its place and identifier and takes every other
\* field from the new record, all other rows staying as they were.
C2_MergeStep ==
    \A p \in Procs :
        k'[p] = k[p] + 1 =>
            LET m == transformed_movies[p][k[p] + 1]
            IN  HasId(table, m.id) =>
                    /\ Len(table') = Len(table)
                    /\ \A i \in 1..Len(table) :
                          /\ table'[i].id = table[i].id
                          /\ table[i].id = m.id =>
                                /\ table'[i].title = m.title
                                /\ table'[i].overview = m.overview
                                /\ table'[i].release_year = m.release_year
                                /\ table'[i].rating = m.rating
                                /\ table'[i].poster_url = m.poster_url
                                /\ table'[i].embedding = m.embedding
                          /\ table[i].id # m.id => table'[i] = table[i]

C2_MergeOnKey ==
    /\ [](UniqueIds(table) /\ UniqueIds(Production))
    /\ [][C2_MergeStep]_vars

\* A title edited in staging between two runs has been updated in place.
C2_Witness ==
    /\ Len(commits) = 2
    /\ Len(commits[1].prod) = 2
    /\ Len(commits[2].prod) = 2
    /\ RowOf(commits[1].prod, 1).title = "Alpha"
    /\ RowOf(commits[2].prod, 1).title = "Beta"

\* C3: a run that fails leaves committed production untouched: no step of a
\* run that has raised, the raising step and the closing of its connection
\* included, changes what is visible in production, and once the run is over
\* nothing of its transaction is left or committed.
C3_FailedStep ==
    \A p \in Procs :
        (pc'[p] # pc[p] /\ failed'[p]) => Production' = Production

C3_FailedDone ==
    \A p \in Procs :
        (failed[p] /\ pc[p] = "done") => (undo[p] = <<>> /\ ~Committed(p))

C3_UpsertAtomic == [][C3_FailedStep]_vars /\ []C3_FailedDone

\* A run failed in the middle of its batch and has closed its connection.
C3_Witness ==
    \E p \in Procs :
        /\ failed[p] /\ pc[p] = "done"
        /\ k[p] >= 1 /\ k[p] < Len(transformed_movies[p])
        /\ Production = <<>>

\* C4: a run whose embedding call failed or returned a number of vectors
\* different from the number of texts never reaches the upsert stage.
C4_WrongSizeAborts ==
    \A p \in Procs :
        (embedCalls[p] > 0 /\ Len(embeddings[p]) # Len(texts_to_embed[p]))
            => /\ pc[p] \notin {"upsert", "commit"}
               /\ k[p] = 0
               /\ undo[p] = <<>>
               /\ ~Committed(p)

\* C5: a run that acquired a connection has closed it, exactly once, when it
\* ends, whether it completed, found staging empty or failed in any stage;
\* no connection is closed twice and none is closed that was not acquired.
C5_ConnectionReleased ==
    \A p \in Procs :
        /\ closeCount[p] <= 1
        /\ conn[p] = "closed" <=> closeCount[p] = 1
        /\ pc[p] \in {"done", "refused"} => conn[p] # "open"
        /\ conn[p] = "closed" => pc[p] = "done"

\* A run that failed after connecting has ended with its connection closed.
C5_Witness ==
    \E p \in Procs : failed[p] /\ pc[p] = "done" /\ closeCount[p] = 1

\* C6: a run whose fetch returned no rows has made no provider call, executed
\* no statement, committed nothing and reported no error.
C6_EmptyStaging ==
    \A p \in Procs :
        (fetched[p] /\ raw_movies[p] = <<>>)
            => /\ pc[p] \in {"finally", "done"}
               /\ ~failed[p]
               /\ embedCalls[p] = 0
               /\ k[p] = 0
               /\ undo[p] = <<>>
               /\ ~Committed(p)

C6_Witness ==
    \E p \in Procs :
        fetched[p] /\ raw_movies[p] = <<>> /\ pc[p] = "done" /\ conn[p] = "closed"

\* C7: a run started without the provider credential opens no connection,
\* reads no staging row, calls no provider and writes nothing.
C7_NoCredentialNoRun ==
    \A p \in Procs :
        ~credential[p]
            => /\ pc[p] \in {"import", "refused"}
               /\ conn[p] = "none"
               /\ closeCount[p] = 0
               /\ ~fetched[p]
               /\ embedCalls[p] = 0
               /\ k[p] = 0
               /\ undo[p] = <<>>
               /\ ~Committed(p)

C7_Witness ==
    \E p, q \in Procs : pc[p] = "refused" /\ pc[q] = "done" /\ Committed(q)

\* The rating (tenths) is the or a tenth nearest to the vote (eighths).
NearestTenth(rating, vote) ==
    /\ 8 * rating - 10 * vote <= 4
    /\ 10 * vote - 8 * rating <= 4

RatingOf(vote_average, rating) ==
    IF vote_average = None THEN rating = 0
    ELSE NearestTenth(rating, vote_average[1])

\* C8 as stated: for every raw record the rating lies within [0.0, 10.0], is
\* the vote_average rounded to one decimal when present and 0.0 when absent.
C8_RatingInRange ==
    normOut # None =>
        /\ normOut[1].movie.rating \in 0..100
        /\ RatingOf(normRaw.vote_average, normOut[1].movie.rating)

\* C8 amended: the same for every raw record whose vote_average is absent or
\* within [0.0, 10.0].
C8_RatingAmended ==
    (normOut # None /\ (normRaw.vote_average = None
                          \/ normRaw.vote_average[1] \in 0..80)) =>
        /\ normOut[1].movie.rating \in 0..100
        /\ RatingOf(normRaw.vote_average, normOut[1].movie.rating)

C8_Witness ==
    /\ normOut # None
    /\ normRaw.vote_average = Some(63)
    /\ normOut[1].movie.rating = 79

\* C9: in a run that reached the upsert stage, position by position, the
\* text sent to the provider is the one built from the title and overview of
\* the fetched row, the record to upsert is that row's with the vector the
\* provider returned at that position, and this is the vector written to and
\* committed in the production row of that identifier.
C9_Aligned ==
    \A p \in Procs :
        (pc[p] \in {"upsert", "commit"} \/ Committed(p)) =>
            /\ Len(transformed_movies[p]) = Len(raw_movies[p])
            /\ Len(texts_to_embed[p]) = Len(raw_movies[p])
            /\ \A i \in 1..Len(raw_movies[p]) :
                  LET raw == raw_movies[p][i]
                  IN  /\ texts_to_embed[p][i] =
                            "Movie Title: "
                              \o (IF raw.title \in {None, Some("")} THEN ""
                                  ELSE raw.title[1])
                              \o ". Overview: "
                              \o (IF raw.overview \in {None, Some("")}
                                  THEN "No overview available."
                                  ELSE raw.overview[1])
                      /\ transformed_movies[p][i].id = raw.id
                      /\ transformed_movies[p][i].embedding = embeddings[p][i]
                      /\ i <= Len(undo[p]) =>
                            /\ undo[p][i].id = raw.id
                            /\ RowOf(table, raw.id).embedding = embeddings[p][i]
                      /\ \A c \in 1..Len(commits) :
                            commits[c].run = p =>
                                RowOf(commits[c].prod, raw.id).embedding
                                    = embeddings[p][i]

\* A run committed a batch of two rows that got two different vectors.
C9_Witness ==
    \E p \in Procs :
        /\ Committed(p)
        /\ Len(raw_movies[p]) = 2
        /\ embeddings[p][1] # embeddings[p][2]

\* The record run p upserts for identifier id, if any.
Wrote(p, id) == \E i \in 1..Len(transformed_movies[p]) : transformed_movies[p][i].id = id

WrittenBy(p, id) ==
    transformed_movies[p][CHOOSE i \in 1..Len(transformed_movies[p]) :
                                transformed_movies[p][i].id = id]

\* C10: whatever the interleaving of the runs, committed production holds
\* exactly one row for every identifier a committed run upserted, and that
\* row is, in every field, the record of the run that committed last among
\* the runs that upserted the identifier.
C10_LastCommitWins ==
    \A id \in Ids :
        LET cs == {c \in 1..Len(commits) : Wrote(commits[c].run, id)}
        IN  IF cs = {} THEN ~HasId(Production, id)
            ELSE LET last == CHOOSE c \in cs : \A d \in cs : d <= c
                 IN  /\ Cardinality({i \in 1..Len(Production) :
                                        Production[i].id = id}) = 1
                     /\ RowOf(Production, id) = WrittenBy(commits[last].run, id)

\* Both runs committed different records for one identifier, the second while
\* the connection of the first was still open.
C10_Witness ==
    /\ Len(commits) = 2
    /\ pc[commits[1].run] = "finally"
    /\ \E id \in Ids :
          /\ Wrote(commits[1].run, id) /\ Wrote(commits[2].run, id)
          /\ WrittenBy(commits[1].run, id) # WrittenBy(commits[2].run, id)
====
